---- MODULE Spec2Model ----
(***************************************************************************)
(* State-machine model of the schedule optimiser.                          *)
(*                                                                         *)
(* The repository holds two variants of the engine:                        *)
(*   "pso"        src/src/pso/{optimizer,particle}.rs   (f64, rooms,       *)
(*                clamps, a final status event, no early stop)             *)
(*   "algorithms" src/src/algorithms/optimizer.rs       (f32, the          *)
(*                4-section rule, early stop, driven by handlers.rs)       *)
(* Both are modelled; the variable `variant` says which one a behaviour    *)
(* runs.                                                                   *)
(*                                                                         *)
(* Two specifications share the module:                                    *)
(*   Spec        one run of PSO::optimize together with the handlers that  *)
(*               write the shared stop channel;                            *)
(*   SpecDecode  PSO::position_to_schedule applied to bounded inputs.      *)
(*                                                                         *)
(* Reals are modelled by integers: coordinates and velocities are small    *)
(* integers, a fitness is an integer number of 1/10000.                    *)
(***************************************************************************)
EXTENDS Integers, Sequences, FiniteSets, TLC

VARIABLES
    variant,                \* which engine runs: "pso" or "algorithms"
    \* ---- one optimize request (Spec) ----
    stop,                   \* value held by the watch channel (stop_tx / stop_rx)
    pc,                     \* where the request is
    parameters,             \* PsoParameters
    particles,              \* PSO.particles
    global_best_position,   \* PSO.global_best_position
    global_best_fitness,    \* PSO.global_best_fitness
    iteration,              \* the loop variable of optimize
    events,                 \* what this run sent on status_tx, in order
    rounds,                 \* ghost: rounds of the loop body started
    initial_scores,         \* ghost: the evaluator's scores of the initial swarm
    stop_round,             \* ghost: `rounds` when stop was first signalled during the run, -1 before
    stale_stop,             \* ghost: the channel held true when this request wrote false
    \* ---- position_to_schedule (SpecDecode) ----
    position,               \* position: &[f64] / &[f32]
    courses,                \* courses: &[CourseRequest]
    sum_ruangan,            \* sum_ruangan: u64 (pso variant only)
    p2s_pc,                 \* "call" | "returned" | "panicked"
    final_schedule,         \* the Vec<OptimizedCourse> returned
    wrapped                 \* ghost: per output section, whether the cursor was restarted for it

decode_vars == <<position, courses, sum_ruangan, p2s_pc, final_schedule, wrapped>>

run_vars == <<stop, pc, parameters, particles, global_best_position, global_best_fitness,
              iteration, events, rounds, initial_scores, stop_round, stale_stop>>

vars == <<variant, run_vars, decode_vars>>

V_PSO == "pso"
V_ALG == "algorithms"
Variants == {V_PSO, V_ALG}

(***************************************************************************)
(* Bounds of the model.                                                    *)
(***************************************************************************)
MaxCourses == 4
MaxCoord == 3
MaxRooms == 2
MaxSwarm == 2
MaxIterations == 2

(***************************************************************************)
(* Small helpers on sequences and tuples.                                  *)
(***************************************************************************)
Range(s) == {s[i] : i \in DOMAIN s}

RECURSIVE SeqSum(_)
SeqSum(s) == IF s = <<>> THEN 0 ELSE Head(s) + SeqSum(Tail(s))

RECURSIVE Flatten(_)
Flatten(ss) == IF ss = <<>> THEN <<>> ELSE Head(ss) \o Flatten(Tail(ss))

Reverse(s) == [i \in 1..Len(s) |-> s[Len(s) + 1 - i]]

\* Ord for tuples of integers: lexicographic
RECURSIVE TupleLess(_, _, _)
TupleLess(a, b, i) ==
    IF i > Len(a) THEN FALSE
    ELSE IF a[i] < b[i] THEN TRUE
    ELSE IF a[i] > b[i] THEN FALSE
    ELSE TupleLess(a, b, i + 1)

\* groups.sort_unstable(); groups.dedup();  -- on the keys collected in S
RECURSIVE SortDedup(_)
SortDedup(S) ==
    IF S = {} THEN <<>>
    ELSE LET m == CHOOSE x \in S : \A y \in S \ {x} : TupleLess(x, y, 1)
         IN  <<m>> \o SortDedup(S \ {m})

\* Insert e into the sorted sequence s behind every element whose first
\* component is not greater: the insertion step of a stable sort.
RECURSIVE InsertStable(_, _)
InsertStable(s, e) ==
    IF s = <<>> THEN <<e>>
    ELSE IF e[1] < Head(s)[1] THEN <<e>> \o s
    ELSE <<Head(s)>> \o InsertStable(Tail(s), e)

\* entries.sort_by(|a, b| a.0.partial_cmp(&b.0).unwrap())  (slice::sort_by is stable)
RECURSIVE SortByFirst(_)
SortByFirst(s) ==
    IF s = <<>> THEN <<>>
    ELSE InsertStable(SortByFirst(SubSeq(s, 1, Len(s) - 1)), s[Len(s)])

(***************************************************************************)
(* models.rs                                                               *)
(***************************************************************************)
\* A CourseRequest: the i-th section of a request, of the given
\* (id_kelas, id_waktu, sks)
CourseRequest(i, kind) ==
    [id_jadwal |-> i, id_matkul |-> i, id_dosen |-> 1, id_waktu |-> kind.id_waktu,
     id_kelas |-> kind.id_kelas, semester |-> 1, sks |-> kind.sks, prodi |-> 1]

(***************************************************************************)
(* PSO::position_to_schedule                                               *)
(***************************************************************************)
GroupKey(c) == <<c.prodi, c.semester, c.id_kelas, c.id_waktu>>
RoomKey(c) == <<c.prodi, c.semester, c.id_kelas>>
DayKey(c) == <<c.prodi, c.semester, c.id_kelas, c.id_waktu, c.hari>>

\* current_room = (current_room % sum_ruangan) + 1 divides by zero when there
\* is a group to allocate and sum_ruangan = 0 (pso variant only).
RoomAllocationPanics(v, cs, rooms) == v = V_PSO /\ cs # <<>> /\ rooms = 0

RECURSIVE AllocateRooms(_, _, _, _)
AllocateRooms(groups, i, current_room, rooms) ==
    IF i > Len(groups) THEN <<>>
    ELSE (groups[i] :> current_room)
         @@ AllocateRooms(groups, i + 1, (current_room % rooms) + 1, rooms)

room_allocation(cs, rooms) ==
    AllocateRooms(SortDedup({RoomKey(cs[i]) : i \in DOMAIN cs}), 1, 1, rooms)

\* ruangan of a fresh OptimizedCourse: the allocated room (pso), the literal 0 (algorithms)
InitialRoom(v, alloc, course) ==
    IF v = V_PSO THEN alloc[RoomKey(course)] ELSE 0

\* A loop that breaks one coordinate too early
RECURSIVE DecodedCount_OneShort(_, _, _)
DecodedCount_OneShort(pos, cs, i) ==
    IF i >= Len(cs) \/ 2 * i + 2 >= Len(pos) THEN i
    ELSE DecodedCount_OneShort(pos, cs, i + 1)

\* The enumerate() loop breaks at the first i (from 0) with 2i + 1 >= position.len()
RECURSIVE DecodedCount(_, _, _)
DecodedCount(pos, cs, i) ==
    IF i >= Len(cs) \/ 2 * i + 1 >= Len(pos) THEN i
    ELSE DecodedCount(pos, cs, i + 1)

NewOptimizedCourse(v, alloc, course) ==
    [id_jadwal |-> course.id_jadwal, id_matkul |-> course.id_matkul,
     id_dosen |-> course.id_dosen, id_kelas |-> course.id_kelas,
     id_waktu |-> course.id_waktu, hari |-> 0, jam_mulai |-> 0, jam_akhir |-> 0,
     ruangan |-> InitialRoom(v, alloc, course),
     semester |-> course.semester, sks |-> course.sks, prodi |-> course.prodi]

\* Step 1: (key, day_order, urutan, OptimizedCourse) per decoded course
schedule_entries(v, pos, cs, rooms) ==
    LET alloc == IF v = V_PSO THEN room_allocation(cs, rooms) ELSE <<>>
    IN  [j \in 1..DecodedCount(pos, cs, 0) |->
            <<GroupKey(cs[j]), pos[2 * (j - 1) + 1], pos[2 * (j - 1) + 2],
              NewOptimizedCourse(v, alloc, cs[j])>>]

\* The keys of a HashMap in the order this call iterates them
IterationOrder(keys, order) ==
    IF order = "ascending" THEN SortDedup(keys) ELSE Reverse(SortDedup(keys))

\* A daily capacity one credit-hour too large
max_sks_Seven(v, n) == IF v = V_ALG /\ n = 4 THEN 3 ELSE 7

\* let max_sks = if sorted.len() == 4 { 3 } else { 6 };   (pso: the literal 6)
max_sks(v, n) == IF v = V_ALG /\ n = 4 THEN 3 ELSE 6

\* while current_day < 5 { if sks_per_day[current_day] + sks <= max { break } current_day += 1 }
RECURSIVE ScanDay(_, _, _, _)
ScanDay(sks_per_day, current_day, sks, cap) ==
    IF current_day >= 5 THEN 5
    ELSE IF sks_per_day[current_day + 1] + sks <= cap THEN current_day
    ELSE ScanDay(sks_per_day, current_day + 1, sks, cap)

\* The loop over one group's sorted entries; yields (key-with-day, urutan, course)
RECURSIVE AssignDays(_, _, _, _, _)
AssignDays(sorted, i, sks_per_day, current_day, cap) ==
    IF i > Len(sorted) THEN <<>>
    ELSE LET course == sorted[i][3]
             day == ScanDay(sks_per_day, current_day, course.sks, cap)
             placed == [course EXCEPT !.hari = IF day < 5 THEN day + 1 ELSE 5]
             load == IF day < 5
                     THEN [sks_per_day EXCEPT ![day + 1] = @ + course.sks]
                     ELSE sks_per_day
         IN  <<<<DayKey(placed), sorted[i][2], placed>>>>
             \o AssignDays(sorted, i + 1, load, day, cap)

\* Step 2 for one group of grouped_by_group
GroupDays(v, entries, key) ==
    LET mine == SelectSeq(entries, LAMBDA e : e[1] = key)
        sorted == SortByFirst([i \in 1..Len(mine) |-> <<mine[i][2], mine[i][3], mine[i][4]>>])
    IN  AssignDays(sorted, 1, <<0, 0, 0, 0, 0>>, 0, max_sks(v, Len(sorted)))

\* A day assignment whose sks_per_day and current_day are not reset from one
\* group to the next
with_day_set_SharedLoad(v, entries, order) ==
    LET keys == IterationOrder({entries[i][1] : i \in DOMAIN entries}, order)
        SortedOf(key) ==
            LET mine == SelectSeq(entries, LAMBDA e : e[1] = key)
            IN  SortByFirst([i \in 1..Len(mine) |-> <<mine[i][2], mine[i][3], mine[i][4]>>])
    IN  AssignDays(Flatten([g \in 1..Len(keys) |-> SortedOf(keys[g])]), 1,
                   <<0, 0, 0, 0, 0>>, 0, max_sks(v, Len(entries)))

with_day_set(v, entries, order) ==
    LET keys == IterationOrder({entries[i][1] : i \in DOMAIN entries}, order)
    IN  Flatten([g \in 1..Len(keys) |-> GroupDays(v, entries, keys[g])])

\* match id_waktu { 1 => (480, 720), 2 => (1080, 1320), _ => (480, 720) }
WindowStart(id_waktu) == IF id_waktu = 2 THEN 1080 ELSE 480
WindowEnd(id_waktu) == IF id_waktu = 2 THEN 1320 ELSE 720

\* A time loop that never restarts the cursor at the window start
RECURSIVE AssignTimes_NoRestart(_, _, _, _, _)
AssignTimes_NoRestart(sorted, i, current_time, start, end) ==
    IF i > Len(sorted) THEN <<>>
    ELSE LET course == sorted[i][2]
             duration == course.sks * 40
             placed == [course EXCEPT !.jam_mulai = current_time,
                                      !.jam_akhir = current_time + duration]
         IN  <<[course |-> placed, wrap |-> FALSE]>>
             \o AssignTimes_NoRestart(sorted, i + 1, current_time + duration, start, end)

\* The loop over one day's sorted entries; yields the course and whether the
\* cursor was restarted for it
RECURSIVE AssignTimes(_, _, _, _, _)
AssignTimes(sorted, i, current_time, start, end) ==
    IF i > Len(sorted) THEN <<>>
    ELSE LET course == sorted[i][2]
             duration == course.sks * 40
             wrap == current_time + duration > end
             begin == IF wrap THEN start ELSE current_time
             placed == [course EXCEPT !.jam_mulai = begin, !.jam_akhir = begin + duration]
         IN  <<[course |-> placed, wrap |-> wrap]>>
             \o AssignTimes(sorted, i + 1, begin + duration, start, end)

\* Step 3 for one group of grouped_by_day
DayTimes(days, key) ==
    LET mine == SelectSeq(days, LAMBDA e : e[1] = key)
        sorted == SortByFirst([i \in 1..Len(mine) |-> <<mine[i][2], mine[i][3]>>])
    IN  AssignTimes(sorted, 1, WindowStart(key[4]), WindowStart(key[4]), WindowEnd(key[4]))

\* The whole decode, in the order the call iterates its maps; each element
\* is [course, wrap]
position_to_schedule(v, pos, cs, rooms, order) ==
    LET days == with_day_set(v, schedule_entries(v, pos, cs, rooms), order)
        keys == IterationOrder({days[i][1] : i \in DOMAIN days}, order)
    IN  Flatten([g \in 1..Len(keys) |-> DayTimes(days, keys[g])])


(***************************************************************************)
(* Fitness values.  A finite fitness is a number of 1/10000; NaN and the   *)
(* two infinities are values outside that range.                           *)
(***************************************************************************)
INFINITY == 1000000
NaN == -1
EarlyStopThreshold == 10
UsizeMax == 2147483647
NEG_INFINITY == 0 - INFINITY

\* `a < b` on floats: false as soon as one side is NaN
FLt(a, b) == a # NaN /\ b # NaN /\ a < b

\* FitnessCalculator::calculate_fitness is not part of the sources: a call
\* yields one of these scores (0 lies below the early-stop threshold), the
\* last three being what a numerical failure gives
FitnessSamples == {0, 20, 30, NaN, INFINITY, NEG_INFINITY}

calculate_fitness == FitnessSamples

(***************************************************************************)
(* Particle                                                                *)
(***************************************************************************)
Clamp(x, lo, hi) == IF x < lo THEN lo ELSE IF x > hi THEN hi ELSE x

Zeros(dimension) == [i \in 1..dimension |-> 0]

Shuffles(n) == {f \in [1..n -> 0..(n - 1)] : \A i, j \in 1..n : f[i] = f[j] => i = j}

InitialVelocities == {-1, 0, 1}

\* Particle::new.  Coordinates are counted in cells of width 1/dimension.
\* pso: one coordinate per cell, shuffled; personal best = the position.
\* algorithms: every coordinate uniform; personal best = the zero vector.
NewParticles(v, dimension) ==
    IF v = V_PSO
    THEN { [position |-> x, velocity |-> w, pbest_position |-> x,
            pbest_fitness |-> INFINITY]
           : x \in Shuffles(dimension), w \in [1..dimension -> InitialVelocities] }
    ELSE { [position |-> x, velocity |-> w, pbest_position |-> Zeros(dimension),
            pbest_fitness |-> INFINITY, fitness |-> INFINITY]
           : x \in [1..dimension -> 0..(dimension - 1)],
             w \in [1..dimension -> InitialVelocities] }

\* What one particle draws in one round: per coordinate the products
\* cognitive_weight * r1 and social_weight * r2, and the evaluator's score
RandomWeights == {0, 1}
Draws(dimension) ==
    [k1 : [1..dimension -> RandomWeights], k2 : [1..dimension -> RandomWeights],
     score : calculate_fitness]

InertiaWeight == 1

\* Particle::update_velocity (the clamp exists in the pso variant only)
update_velocity(v, p, gbest, d, params) ==
    [p EXCEPT !.velocity =
        [i \in DOMAIN p.velocity |->
            LET cognitive == d.k1[i] * (p.pbest_position[i] - p.position[i])
                social == d.k2[i] * (gbest[i] - p.position[i])
                raw == InertiaWeight * p.velocity[i] + cognitive + social
            IN  IF v = V_PSO THEN Clamp(raw, -params.velocity_clamp, params.velocity_clamp)
                ELSE raw]]

\* Particle::update_position (the clamp exists in the pso variant only)
update_position(v, p, params) ==
    [p EXCEPT !.position =
        [i \in DOMAIN p.position |->
            IF v = V_PSO THEN Clamp(p.position[i] + p.velocity[i], 0, params.position_clamp)
            ELSE p.position[i] + p.velocity[i]]]

\* algorithms: Particle::update_personal_best, on the score just stored
update_personal_best(p) ==
    IF FLt(p.fitness, p.pbest_fitness) /\ p.fitness # NaN
    THEN [p EXCEPT !.pbest_fitness = p.fitness, !.pbest_position = p.position]
    ELSE p

\* pso: if fitness < particle.pbest_fitness { ... }
pso_update_personal_best(p, fitness) ==
    IF FLt(fitness, p.pbest_fitness)
    THEN [p EXCEPT !.pbest_fitness = fitness, !.pbest_position = p.position]
    ELSE p

(***************************************************************************)
(* PSO                                                                     *)
(***************************************************************************)
Dimension == 2 * Len(courses)

\* evaluate: position_to_schedule, then the evaluator.  The decode panics
\* exactly when the room allocation does; its result only feeds the evaluator.
EvaluationPanics == RoomAllocationPanics(variant, courses, sum_ruangan)

\* A scan that takes every particle's current score, smaller or not
RECURSIVE update_global_best_Unguarded(_, _, _, _)
update_global_best_Unguarded(ps, i, gbf, gbp) ==
    IF i > Len(ps) THEN <<gbf, gbp>>
    ELSE IF ps[i].fitness # NaN
         THEN update_global_best_Unguarded(ps, i + 1, ps[i].fitness, ps[i].position)
         ELSE update_global_best_Unguarded(ps, i + 1, gbf, gbp)

\* A scan that leaves the loop at the first particle that improves the best
RECURSIVE update_global_best_FirstOnly(_, _, _, _)
update_global_best_FirstOnly(ps, i, gbf, gbp) ==
    IF i > Len(ps) THEN <<gbf, gbp>>
    ELSE IF FLt(ps[i].pbest_fitness, gbf) /\ ps[i].pbest_fitness # NaN
         THEN <<ps[i].pbest_fitness, ps[i].pbest_position>>
         ELSE update_global_best_FirstOnly(ps, i + 1, gbf, gbp)

\* algorithms: PSO::update_global_best, the scan from particle i on;
\* yields <<fitness, position>>
RECURSIVE update_global_best(_, _, _, _)
update_global_best(ps, i, gbf, gbp) ==
    IF i > Len(ps) THEN <<gbf, gbp>>
    ELSE IF FLt(ps[i].pbest_fitness, gbf) /\ ps[i].pbest_fitness # NaN
         THEN update_global_best(ps, i + 1, ps[i].pbest_fitness, ps[i].pbest_position)
         ELSE update_global_best(ps, i + 1, gbf, gbp)

\* pso: particles.iter().min_by(pbest_fitness): the first of the minima
MinByPbest(ps) ==
    CHOOSE i \in 1..Len(ps) :
        /\ \A j \in 1..Len(ps) : ~FLt(ps[j].pbest_fitness, ps[i].pbest_fitness)
        /\ \A j \in 1..(i - 1) : FLt(ps[i].pbest_fitness, ps[j].pbest_fitness)

\* pso: "Find new global best"; yields <<fitness, position>>
pso_find_global_best(ps, gbf, gbp) ==
    IF ps = <<>> THEN <<gbf, gbp>>
    ELSE LET best == ps[MinByPbest(ps)]
         IN  IF FLt(best.pbest_fitness, gbf)
             THEN <<best.pbest_fitness, best.pbest_position>>
             ELSE <<gbf, gbp>>

\* pso: PSO::initialize_swarm, from particle i on, with the scores the
\* evaluator gives; yields <<particles, fitness, position>>
RECURSIVE pso_initialize_swarm(_, _, _, _, _)
pso_initialize_swarm(ps, scores, i, gbf, gbp) ==
    IF i > Len(ps) THEN <<ps, gbf, gbp>>
    ELSE LET better == FLt(scores[i], gbf)
         IN  pso_initialize_swarm(
                 [ps EXCEPT ![i] = pso_update_personal_best(ps[i], scores[i])],
                 scores, i + 1,
                 IF better THEN scores[i] ELSE gbf,
                 IF better THEN ps[i].position ELSE gbp)

\* OptimizationStatus / OptimizationProgress, without the clock
ProgressEvent(it, best, finished) ==
    [iteration |-> it, best_fitness |-> best, is_finished |-> finished]

RunCourseLists ==
    { <<>>, <<CourseRequest(1, [id_kelas |-> 1, id_waktu |-> 1, sks |-> 3])>> }

Init ==
    /\ variant \in Variants
    /\ stop = FALSE
    /\ pc = IF variant = V_ALG THEN "request" ELSE "new"
    /\ parameters \in [swarm_size : 1..MaxSwarm, max_iterations : 0..MaxIterations,
                       velocity_clamp : {1}, position_clamp : {1}]
    /\ courses \in RunCourseLists
    /\ courses # <<>> => parameters.swarm_size = 1
    /\ sum_ruangan \in IF variant = V_PSO THEN {0, 1} ELSE {0}
    /\ particles = <<>>
    /\ global_best_position = <<>>
    /\ global_best_fitness = INFINITY
    /\ iteration = 0
    /\ events = <<>>
    /\ rounds = 0
    /\ initial_scores = <<>>
    /\ stop_round = -1
    /\ stale_stop = FALSE
    /\ position = <<>>
    /\ p2s_pc = "idle"
    /\ final_schedule = <<>>
    /\ wrapped = <<>>

RunningPcs == {"new", "optimize", "loop", "round", "exit"}

\* handlers.rs stop_handler: state.stop_tx.send(true).  The stop_rx handed
\* to the pso variant is the receiving end of such a channel.
stop_handler ==
    /\ stop' = TRUE
    /\ stop_round' = IF pc \in RunningPcs /\ stop_round = -1 THEN rounds ELSE stop_round
    /\ UNCHANGED <<variant, pc, parameters, particles, global_best_position,
                   global_best_fitness, iteration, events, rounds, initial_scores,
                   stale_stop, decode_vars>>

\* A handler that subscribes to the channel and leaves its value as it is
optimize_handler_NoReset ==
    /\ pc = "request"
    /\ stale_stop' = stop
    /\ pc' = "new"
    /\ UNCHANGED <<variant, stop, parameters, particles, global_best_position,
                   global_best_fitness, iteration, events, rounds, initial_scores,
                   stop_round, decode_vars>>

\* handlers.rs optimize_handler, up to state.stop_tx.send(false), for this request
optimize_handler ==
    /\ pc = "request"
    /\ stop' = FALSE
    /\ stale_stop' = stop
    /\ pc' = "new"
    /\ UNCHANGED <<variant, parameters, particles, global_best_position,
                   global_best_fitness, iteration, events, rounds, initial_scores,
                   stop_round, decode_vars>>

\* The same lines run for another request: every request writes false to
\* the one channel of AppState (the handlers start the algorithms variant)
optimize_handler_other ==
    /\ variant = V_ALG
    /\ stop' = FALSE
    /\ UNCHANGED <<variant, pc, parameters, particles, global_best_position,
                   global_best_fitness, iteration, events, rounds, initial_scores,
                   stop_round, stale_stop, decode_vars>>

\* PSO::new
PSO_new ==
    /\ pc = "new"
    /\ IF variant = V_PSO
       THEN particles' \in [1..parameters.swarm_size -> NewParticles(V_PSO, Dimension)]
       ELSE particles' = <<>>
    /\ global_best_position' = Zeros(Dimension)
    /\ global_best_fitness' = INFINITY
    /\ pc' = "optimize"
    /\ UNCHANGED <<variant, stop, parameters, iteration, events, rounds, initial_scores,
                   stop_round, stale_stop, decode_vars>>

\* PSO::optimize up to the loop: reset_optimization and initialize_swarm
\* (algorithms), initialize_swarm with its evaluation (pso)
optimize_begin_algorithms ==
    /\ pc = "optimize" /\ variant = V_ALG
    /\ global_best_fitness' = INFINITY
    /\ global_best_position' = Zeros(Len(global_best_position))
    /\ particles' \in [1..parameters.swarm_size -> NewParticles(V_ALG, Dimension)]
    /\ iteration' = 0
    /\ pc' = "loop"
    /\ UNCHANGED <<variant, stop, parameters, events, rounds, initial_scores, stop_round, stale_stop,
                   decode_vars>>

optimize_begin_pso ==
    /\ pc = "optimize" /\ variant = V_PSO
    /\ ~(EvaluationPanics /\ particles # <<>>)
    /\ \E scores \in [1..Len(particles) -> calculate_fitness] :
          \E r \in {pso_initialize_swarm(particles, scores, 1, global_best_fitness,
                                         global_best_position)} :
              /\ particles' = r[1]
              /\ global_best_fitness' = r[2]
              /\ global_best_position' = r[3]
              /\ initial_scores' = scores
    /\ iteration' = 0
    /\ pc' = "loop"
    /\ UNCHANGED <<variant, stop, parameters, events, rounds, stop_round, stale_stop, decode_vars>>

\* The first evaluation divides by zero in the room allocation
optimize_begin_panic ==
    /\ pc = "optimize" /\ variant = V_PSO
    /\ EvaluationPanics /\ particles # <<>>
    /\ pc' = "panicked"
    /\ UNCHANGED <<variant, stop, parameters, particles, global_best_position,
                   global_best_fitness, iteration, events, rounds, initial_scores,
                   stop_round, stale_stop, decode_vars>>

\* for iteration in 0..max_iterations { if *stop_rx.borrow() { break; } ...
optimize_check ==
    /\ pc = "loop"
    /\ IF iteration < parameters.max_iterations /\ ~stop
       THEN pc' = "round" /\ rounds' = rounds + 1
       ELSE pc' = "exit" /\ rounds' = rounds
    /\ UNCHANGED <<variant, stop, parameters, particles, global_best_position,
                   global_best_fitness, iteration, events, initial_scores, stop_round, stale_stop,
                   decode_vars>>

\* algorithms, one particle: evaluate_all_particles
algorithms_evaluate(p, d) == update_personal_best([p EXCEPT !.fitness = d.score])

\* algorithms, one particle: update_all_particles
algorithms_move(p, gbest, d) ==
    update_position(V_ALG, update_velocity(V_ALG, p, gbest, d, parameters), parameters)

\* algorithms: the loop body.  evaluate_all_particles, update_global_best,
\* update_all_particles, then the early stop or progress(iteration + 1)
optimize_round_algorithms ==
    /\ pc = "round" /\ variant = V_ALG
    /\ \E draws \in [1..Len(particles) -> Draws(Dimension)] :
       \E evaluated \in {[p \in 1..Len(particles) |-> algorithms_evaluate(particles[p], draws[p])]} :
       \E gb \in {update_global_best(evaluated, 1, global_best_fitness, global_best_position)} :
          /\ global_best_fitness' = gb[1]
          /\ global_best_position' = gb[2]
          /\ particles' = [p \in 1..Len(particles) |-> algorithms_move(evaluated[p], gb[2], draws[p])]
          /\ IF FLt(gb[1], EarlyStopThreshold)
             THEN /\ pc' = "exit"
                  /\ UNCHANGED <<iteration, events>>
             ELSE /\ events' = Append(events, ProgressEvent(iteration + 1, gb[1], FALSE))
                  /\ iteration' = iteration + 1
                  /\ pc' = "loop"
    /\ UNCHANGED <<variant, stop, parameters, rounds, initial_scores, stop_round, stale_stop, decode_vars>>

\* pso, one particle of the loop body: update_velocity, update_position,
\* evaluation, personal best
pso_particle_step(p, gbest, d) ==
    pso_update_personal_best(
        update_position(V_PSO, update_velocity(V_PSO, p, gbest, d, parameters), parameters),
        d.score)

\* pso: the loop body.  Every particle, the new global best, the status
\* update, yield_now
optimize_round_pso ==
    /\ pc = "round" /\ variant = V_PSO
    /\ \E draws \in [1..Len(particles) -> Draws(Dimension)] :
       \E moved \in {[p \in 1..Len(particles) |->
                        pso_particle_step(particles[p], global_best_position, draws[p])]} :
       \E gb \in {pso_find_global_best(moved, global_best_fitness, global_best_position)} :
          /\ particles' = moved
          /\ global_best_fitness' = gb[1]
          /\ global_best_position' = gb[2]
          /\ events' = Append(events, ProgressEvent(iteration, gb[1], FALSE))
    /\ iteration' = iteration + 1
    /\ pc' = "loop"
    /\ UNCHANGED <<variant, stop, parameters, rounds, initial_scores, stop_round, stale_stop, decode_vars>>

\* algorithms, after the loop: all_best_fitness.push(..) and the return
optimize_return_algorithms ==
    /\ pc = "exit" /\ variant = V_ALG
    /\ pc' = "returned"
    /\ UNCHANGED <<variant, stop, parameters, particles, global_best_position,
                   global_best_fitness, iteration, events, rounds, initial_scores,
                   stop_round, stale_stop, decode_vars>>

\* pso, after the loop: the final status, iteration: max_iterations - 1, and
\* the return.  With max_iterations = 0 a build without overflow checks wraps
optimize_return_pso ==
    /\ pc = "exit" /\ variant = V_PSO
    /\ events' = Append(events,
                    ProgressEvent(IF parameters.max_iterations = 0 THEN UsizeMax
                                  ELSE parameters.max_iterations - 1,
                                  global_best_fitness, TRUE))
    /\ pc' = "returned"
    /\ UNCHANGED <<variant, stop, parameters, particles, global_best_position,
                   global_best_fitness, iteration, rounds, initial_scores, stop_round, stale_stop,
                   decode_vars>>

\* ... and a build with overflow checks panics on max_iterations - 1
optimize_return_overflow ==
    /\ pc = "exit" /\ variant = V_PSO
    /\ parameters.max_iterations = 0
    /\ pc' = "panicked"
    /\ UNCHANGED <<variant, stop, parameters, particles, global_best_position,
                   global_best_fitness, iteration, events, rounds, initial_scores,
                   stop_round, stale_stop, decode_vars>>

Next ==
    \/ stop_handler
    \/ optimize_handler
    \/ optimize_handler_other
    \/ PSO_new
    \/ optimize_begin_algorithms
    \/ optimize_begin_pso
    \/ optimize_begin_panic
    \/ optimize_check
    \/ optimize_round_algorithms
    \/ optimize_round_pso
    \/ optimize_return_algorithms
    \/ optimize_return_pso
    \/ optimize_return_overflow

Spec == Init /\ [][Next]_vars

(***************************************************************************)
(* Inputs of SpecDecode.                                                   *)
(***************************************************************************)
\* (id_kelas, id_waktu, sks) of the sections offered to the decoder
CourseKinds ==
    { [id_kelas |-> 1, id_waktu |-> 1, sks |-> 3],
      [id_kelas |-> 1, id_waktu |-> 1, sks |-> 7],
      [id_kelas |-> 1, id_waktu |-> 2, sks |-> 3],
      [id_kelas |-> 2, id_waktu |-> 3, sks |-> 2] }

CourseLists ==
    UNION { { [i \in 1..n |-> CourseRequest(i, k[i])] : k \in [1..n -> CourseKinds] }
            : n \in 0..MaxCourses }

\* Position vectors of length m with coordinates in 0..MaxCoord: the day-order
\* coordinates step by a from section to section, the within-day coordinates
\* by c, modulo MaxCoord + 1 (a step of 0 makes all equal, 1 ascending,
\* MaxCoord descending)
PositionSamples(m) ==
    { [j \in 1..m |-> IF j % 2 = 1 THEN (a * ((j + 1) \div 2)) % (MaxCoord + 1)
                                   ELSE (c * (j \div 2)) % (MaxCoord + 1)]
      : a \in 0..MaxCoord, c \in 0..MaxCoord }

\* How many coordinates the position vector lacks
Deficits == {0, 1, 3}

HashOrders == {"ascending", "descending"}

InitDecode ==
    /\ variant \in Variants
    /\ courses \in CourseLists
    /\ \E d \in Deficits :
          /\ 2 * Len(courses) >= d
          /\ position \in PositionSamples(2 * Len(courses) - d)
    /\ sum_ruangan \in IF variant = V_PSO THEN 0..MaxRooms ELSE {0}
    /\ p2s_pc = "call"
    /\ final_schedule = <<>>
    /\ wrapped = <<>>
    /\ stop = FALSE
    /\ pc = "idle"
    /\ parameters = [swarm_size |-> 0, max_iterations |-> 0, velocity_clamp |-> 0, position_clamp |-> 0]
    /\ particles = <<>>
    /\ global_best_position = <<>>
    /\ global_best_fitness = INFINITY
    /\ iteration = 0
    /\ events = <<>>
    /\ rounds = 0
    /\ initial_scores = <<>>
    /\ stop_round = -1
    /\ stale_stop = FALSE

p2s_return ==
    /\ p2s_pc = "call"
    /\ ~RoomAllocationPanics(variant, courses, sum_ruangan)
    /\ \E order \in HashOrders :
          \E out \in {position_to_schedule(variant, position, courses, sum_ruangan, order)} :
              /\ final_schedule' = [i \in 1..Len(out) |-> out[i].course]
              /\ wrapped' = [i \in 1..Len(out) |-> out[i].wrap]
    /\ p2s_pc' = "returned"
    /\ UNCHANGED <<variant, run_vars, position, courses, sum_ruangan>>

p2s_panic ==
    /\ p2s_pc = "call"
    /\ RoomAllocationPanics(variant, courses, sum_ruangan)
    /\ p2s_pc' = "panicked"
    /\ UNCHANGED <<variant, run_vars, position, courses, sum_ruangan, final_schedule, wrapped>>

NextDecode == p2s_return \/ p2s_panic

SpecDecode == InitDecode /\ [][NextDecode]_vars

(***************************************************************************)
(* Properties of one run of optimize (checked under Spec).                 *)
(***************************************************************************)
FinishedEvents == {i \in DOMAIN events : events[i].is_finished}

\* C1: within one run the best_fitness carried by successive progress
\* events never increases: no later event reports a larger value than an
\* earlier one (and none reports NaN).
C1_BestFitnessNonIncreasing ==
    \A i, j \in DOMAIN events :
        i < j => /\ events[i].best_fitness # NaN
                 /\ events[j].best_fitness # NaN
                 /\ events[j].best_fitness <= events[i].best_fitness

\* Witness of C1: a run whose second event reports a strictly smaller finite
\* best than its first
C1_Witness ==
    /\ Len(events) >= 2
    /\ events[1].best_fitness < INFINITY
    /\ FLt(events[2].best_fitness, events[1].best_fitness)

\* C2: a run that has returned has published exactly one event with
\* is_finished = true, and that event is the last one of the run.
C2_OneFinishedEventLast ==
    pc = "returned" => FinishedEvents = {Len(events)} /\ events # <<>>

\* C3: once stop has been signalled during the run, no further round is
\* started: the number of rounds started stays what it was at the signal.
C3_StopWithinOneIteration ==
    stop_round # -1 => rounds = stop_round

\* C4: a run that returns after zero rounds has evaluated every particle of
\* the initial swarm once, holds the least of these scores as its best
\* fitness together with the position that attained it, and has emitted at
\* most one event besides the finished one.
C4_ZeroRoundsInitialBest ==
    (pc = "returned" /\ rounds = 0) =>
        /\ Len(initial_scores) = parameters.swarm_size
        /\ \A i \in DOMAIN initial_scores :
              ~FLt(initial_scores[i], global_best_fitness)
        /\ \/ /\ global_best_fitness = INFINITY
              /\ \A i \in DOMAIN initial_scores : initial_scores[i] = NaN
           \/ \E i \in DOMAIN initial_scores :
                 /\ initial_scores[i] = global_best_fitness
                 /\ particles[i].position = global_best_position
        /\ Cardinality(DOMAIN events \ FinishedEvents) <= 1

\* C5: for swarm_size >= 1 and max_iterations >= 0 the run starts at most
\* max_iterations rounds, does not fail, and what it returns is a position
\* vector of length 2 * courses.len().
C5_TerminatesWithPosition ==
    /\ rounds <= parameters.max_iterations
    /\ pc # "panicked"
    /\ pc = "returned" => Len(global_best_position) = 2 * Len(courses)

\* C6: no round is started behind a round that left the global best below
\* the early-stop threshold, and a run that returns with its best below the
\* threshold has a last event with is_finished = true.
C6_EarlyStop ==
    /\ ~(pc = "round" /\ rounds >= 2 /\ FLt(global_best_fitness, EarlyStopThreshold))
    /\ (pc = "returned" /\ FLt(global_best_fitness, EarlyStopThreshold)) =>
          (events # <<>> /\ events[Len(events)].is_finished)

\* A fitness that is a number: neither NaN nor an infinity
IsFinite(x) == x \notin {NaN, INFINITY, NEG_INFINITY}

\* C14: in every step of a run, a personal best that changes becomes a
\* finite, strictly smaller fitness, and so does the global best: no NaN and
\* no infinite value is ever taken as a best.
C14_OnlyFiniteBest ==
    [][ /\ \A p \in DOMAIN particles \cap DOMAIN particles' :
              particles'[p].pbest_fitness # particles[p].pbest_fitness =>
                  /\ IsFinite(particles'[p].pbest_fitness)
                  /\ particles'[p].pbest_fitness < particles[p].pbest_fitness
        /\ global_best_fitness' # global_best_fitness =>
              /\ IsFinite(global_best_fitness')
              /\ global_best_fitness' < global_best_fitness ]_vars

\* C15: once the particles have gone through update_velocity and
\* update_position, every velocity coordinate lies in
\* [-velocity_clamp, velocity_clamp] and every position coordinate in
\* [0, position_clamp].
C15_WithinClamps ==
    (rounds >= 1 /\ (pc # "round" \/ rounds >= 2)) =>
        \A p \in DOMAIN particles : \A i \in DOMAIN particles[p].position :
            /\ particles[p].velocity[i] >= -parameters.velocity_clamp
            /\ particles[p].velocity[i] <= parameters.velocity_clamp
            /\ particles[p].position[i] >= 0
            /\ particles[p].position[i] <= parameters.position_clamp

\* C18: a run ends short of max_iterations rounds, without an early stop,
\* only when stop was signalled during the run, that is after
\* optimize_handler wrote false to the channel: a stop signalled before the
\* request does not cancel it.
C18_StaleStopDoesNotCancel ==
    (/\ pc \in {"exit", "returned"}
     /\ rounds < parameters.max_iterations
     /\ ~(variant = V_ALG /\ FLt(global_best_fitness, EarlyStopThreshold))) =>
        stop_round # -1

\* Witness of C18: a request that found the channel at true has run all its
\* rounds and returned, no stop having been signalled during the run
C18_Witness ==
    /\ stale_stop
    /\ pc = "returned"
    /\ stop_round = -1
    /\ rounds >= 1
    /\ rounds = parameters.max_iterations

\* The run is behind the global-best update of a round
AfterRound == rounds >= 1 /\ (pc # "round" \/ rounds >= 2)

Sections == DOMAIN final_schedule

GroupKeys == {GroupKey(final_schedule[i]) : i \in Sections}

GroupMembers(key) == {i \in Sections : GroupKey(final_schedule[i]) = key}

RECURSIVE SksOf(_)
SksOf(S) ==
    IF S = {} THEN 0
    ELSE LET i == CHOOSE x \in S : TRUE IN final_schedule[i].sks + SksOf(S \ {i})

\* Total sks of the group's sections placed on the day
DayLoad(key, day) == SksOf({i \in GroupMembers(key) : final_schedule[i].hari = day})

\* The group's daily capacity as the specification states it
StatedCapacity(key) == IF Cardinality(GroupMembers(key)) = 4 THEN 3 ELSE 6

\* C7: no operation of the core aborts: whatever the course list, the room
\* count and the position vector, position_to_schedule returns a value.
C7_NoAbort == p2s_pc # "panicked"

\* C8: every output section has a day in 1..5, and on each of the days 1..4
\* the sks of a group's sections do not exceed the group's daily capacity
\* (6 in general, 3 when the group has exactly 4 sections).
C8_DailyCapacity ==
    p2s_pc = "returned" =>
        /\ \A i \in Sections : final_schedule[i].hari \in 1..5
        /\ \A key \in GroupKeys : \A day \in 1..4 :
              DayLoad(key, day) <= StatedCapacity(key)

\* The day-order coordinate the section was decoded from
DayOrderOf(i) == position[2 * (final_schedule[i].id_jadwal - 1) + 1]

\* Rank (from 1) of section i among its group by day-order coordinate,
\* equal coordinates in input order
DayOrderRank(i) ==
    1 + Cardinality({j \in GroupMembers(GroupKey(final_schedule[i])) :
            \/ DayOrderOf(j) < DayOrderOf(i)
            \/ /\ DayOrderOf(j) = DayOrderOf(i)
               /\ final_schedule[j].id_jadwal < final_schedule[i].id_jadwal})

FourTimesThree(key) ==
    /\ Cardinality(GroupMembers(key)) = 4
    /\ \A i \in GroupMembers(key) : final_schedule[i].sks = 3

\* C9: in a group of exactly four sections of 3 sks each, the section with
\* the k-th smallest day-order coordinate is placed on day k.
C9_FourSectionsDistinctDays ==
    p2s_pc = "returned" =>
        \A key \in GroupKeys : FourTimesThree(key) =>
            \A i \in GroupMembers(key) : final_schedule[i].hari = DayOrderRank(i)

\* C10: every output section ends sks * 40 minutes after it starts, starts
\* no earlier than its session window (480, or 1080 for category 2), and,
\* unless the cursor was restarted for it, ends within the window (720, or
\* 1320 for category 2).
C10_TimesWithinWindow ==
    p2s_pc = "returned" =>
        \A i \in Sections :
            LET c == final_schedule[i] IN
            /\ c.jam_akhir = c.jam_mulai + c.sks * 40
            /\ c.jam_akhir >= c.jam_mulai
            /\ c.jam_mulai >= (IF c.id_waktu = 2 THEN 1080 ELSE 480)
            /\ ~wrapped[i] => c.jam_akhir <= (IF c.id_waktu = 2 THEN 1320 ELSE 720)

\* Witness of C10: a decode that placed, in the evening window, one section
\* behind another without a restart, and restarted the cursor for a third
C10_Witness ==
    /\ p2s_pc = "returned"
    /\ \E i \in Sections : final_schedule[i].id_waktu = 2 /\ ~wrapped[i]
                           /\ final_schedule[i].jam_mulai > 1080
    /\ \E i \in Sections : wrapped[i] /\ final_schedule[i].jam_akhir > 720

\* The (program, semester, room-class) keys of the request, and the rank
\* (from 0) of a key among them in ascending order
RoomKeys == {RoomKey(courses[i]) : i \in DOMAIN courses}

RoomRank(key) == Cardinality({k \in RoomKeys : TupleLess(k, key, 1)})

\* C11: the room of every output section is (r mod room_count) + 1, r being
\* the rank of its (program, semester, room-class) key among the sorted keys
\* of the request; it lies in 1..room_count and does not depend on the
\* position vector.
C11_RoomByGroupKey ==
    p2s_pc = "returned" =>
        \A i \in Sections :
            /\ final_schedule[i].ruangan \in 1..sum_ruangan
            /\ final_schedule[i].ruangan
                   = (RoomRank(RoomKey(final_schedule[i])) % sum_ruangan) + 1

\* How often x occurs in the sequence s, and equality of two sequences as
\* multisets
Count(s, x) == Cardinality({i \in DOMAIN s : s[i] = x})

SameMultiset(s, t) ==
    /\ Len(s) = Len(t)
    /\ \A x \in Range(s) \cup Range(t) : Count(s, x) = Count(t, x)

\* The sections a call returns when its hash maps iterate in the given order
DecodedIn(order) ==
    LET out == position_to_schedule(variant, position, courses, sum_ruangan, order)
    IN  [i \in 1..Len(out) |-> out[i].course]

\* C12: whatever order the hash maps of a call iterate in, and with equal
\* coordinates present, the call returns the same multiset of sections as a
\* call on the same (position, courses, room count) under any other order.
C12_DeterministicMultiset ==
    p2s_pc = "returned" =>
        \A order \in HashOrders : SameMultiset(final_schedule, DecodedIn(order))

\* Witness of C12: a decode of several groups with two equal day-order
\* coordinates inside one group, whose output sequence differs between the
\* iteration orders
C12_Witness ==
    /\ p2s_pc = "returned"
    /\ DecodedIn("ascending") # DecodedIn("descending")
    /\ \E i, j \in Sections :
          /\ i # j
          /\ GroupKey(final_schedule[i]) = GroupKey(final_schedule[j])
          /\ DayOrderOf(i) = DayOrderOf(j)

\* The output sections that stem from the j-th course of the request
SectionsOf(j) == {i \in Sections : final_schedule[i].id_jadwal = courses[j].id_jadwal}

TimeOrderOf(i) == position[2 * (final_schedule[i].id_jadwal - 1) + 2]

\* The sections of i's (group, day) that the call placed before i
PlacedBefore(i) ==
    {j \in Sections : j < i /\ DayKey(final_schedule[j]) = DayKey(final_schedule[i])}

\* C17: on each of the days 1..4 the sections of a group follow one another
\* from the window start without a gap and without a wrap, in ascending
\* within-day order; they do not overlap and all end within the window, the
\* day's load being at most 6 sks = 240 minutes.
C17_DaysOneToFourBackToBack ==
    p2s_pc = "returned" =>
        \A i \in Sections : final_schedule[i].hari \in 1..4 =>
            /\ ~wrapped[i]
            /\ DayLoad(GroupKey(final_schedule[i]), final_schedule[i].hari) * 40 <= 240
            /\ final_schedule[i].jam_mulai
                   = WindowStart(final_schedule[i].id_waktu) + 40 * SksOf(PlacedBefore(i))
            /\ final_schedule[i].jam_akhir <= WindowEnd(final_schedule[i].id_waktu)
            /\ \A j \in PlacedBefore(i) :
                  /\ TimeOrderOf(j) <= TimeOrderOf(i)
                  /\ final_schedule[j].jam_akhir <= final_schedule[i].jam_mulai

\* Witness of C17: a day before day 5 that holds two sections of one group,
\* the one of larger within-day coordinate starting where the other ends
C17_Witness ==
    /\ p2s_pc = "returned"
    /\ \E i \in Sections : \E j \in PlacedBefore(i) :
          /\ final_schedule[i].hari \in 1..4
          /\ TimeOrderOf(j) < TimeOrderOf(i)
          /\ final_schedule[i].jam_mulai = final_schedule[j].jam_akhir
          /\ final_schedule[j].jam_akhir > final_schedule[j].jam_mulai

====
